---- MODULE Spec2Model ----
(***************************************************************************)
(* Model of the max72xx driver (src/max72xx/max72xx.go): a chain of up to  *)
(* eight MAX7219/7221 devices in series behind one SPI bus and one         *)
(* chip-select ("load") line.  Every public method of Device is one        *)
(* action; what it puts on the wire is recorded in `bus` as the sequence   *)
(* of cs.Low / cs.High / bus.Transfer events of the most recent call.      *)
(* Spec is the driver alone with one caller; SpecChip attaches the devices *)
(* and follows their registers; SpecConc runs two callers of               *)
(* WriteCommandToAll statement by statement.                               *)
(***************************************************************************)
EXTENDS Integers, Sequences, FiniteSets, TLC

VARIABLES
    numDevices,   \* Device.numDevices (uint8)
    cs,           \* level the driver last drove the cs pin to: "low", "high",
                  \* or "undriven" before the first cs.Low / cs.High
    csOutput,     \* TRUE once cs.Configure(PinOutput) has run
    bus,          \* events the most recent call produced on cs and the SPI bus
    call,         \* the most recent call: its name and its arguments
    ret,          \* what the most recent call returned
    shift,        \* the bytes held in the shift registers of the devices
                  \* attached to the bus, most recently shifted byte first
    regs,         \* the registers of the attached devices, nearest device first
    callers,      \* concurrent callers of WriteCommandToAll: for each its frame,
                  \* its position in the code, its loop index and its result
    sender        \* with concurrent callers: the caller behind each event of bus

vars == <<numDevices, cs, csOutput, bus, call, ret, shift, regs, callers, sender>>

---------------------------------------------------------------------------
(* Program constants                                                       *)

maxNumberOfDevices == 8

REG_NOOP == 0
REG_DIGIT3 == 4
REG_DECODE_MODE == 9
REG_INTENSITY == 10
REG_SCANLIMIT == 11
REG_SHUTDOWN == 12
REG_DISPLAY_TEST == 15

ErrInvalidData == "invalid data"

\* uint8 arithmetic
Uint8(x) == x % 256

---------------------------------------------------------------------------
(* Bounds of the model                                                     *)

\* with devices attached to the bus: chains of 0..MaxChipDevices devices
MaxChipDevices == 2
\* with concurrent callers: chains and frames of 0..MaxConcDevices devices
MaxConcDevices == 2
\* numDevices arguments given to NewDevice: 0..MaxNumDevicesArg; deviceNum
\* arguments given to WriteCommand: the same and the largest uint8
MaxNumDevicesArg == 9
\* uint8 arguments of the setters: 0..MaxByteArg and the largest uint8
MaxByteArg == 16
\* Config.NumberOfDigits: 0..MaxDigitsArg and the largest uint8
MaxDigitsArg == 9
\* WriteCommandToAll is given every frame over FrameCmds of length
\* 0..MaxFrameLen, and one frame of pairwise distinct commands for every
\* length 0..MaxRampLen
MaxFrameLen == 3
MaxRampLen == 10

NumDevicesArgs == 0..MaxNumDevicesArg
DeviceNumArgs == (0..MaxNumDevicesArg) \cup {255}
ByteArgs == (0..MaxByteArg) \cup {255}
DigitsArgs == (0..MaxDigitsArg) \cup {255}
IntensityArgs == {0, 1, 15, 16, 255}

Command(r, d) == [Register |-> r, Data |-> d]

NoOp == Command(REG_NOOP, 0)

CmdArgs == {Command(REG_DIGIT3, 95), Command(REG_SHUTDOWN, 1), NoOp}
FrameCmds == {Command(REG_DIGIT3, 95), Command(REG_SHUTDOWN, 1)}

RECURSIVE SeqsOfLen(_, _)
SeqsOfLen(S, n) ==
    IF n = 0 THEN {<<>>}
    ELSE {Append(s, x) : s \in SeqsOfLen(S, n - 1), x \in S}

Ramp(n) == [i \in 1..n |-> Command(i, 80 + i)]

FrameArgs ==
    UNION {SeqsOfLen(FrameCmds, n) : n \in 0..MaxFrameLen}
        \cup {Ramp(n) : n \in 0..MaxRampLen}

---------------------------------------------------------------------------
(* Bus events                                                              *)

CsLow == <<"cs.Low">>
CsHigh == <<"cs.High">>
Transfer(b) == <<"bus.Transfer", b>>

\* result of a call: what it returned and the events it produced
Result(r, events) == [ret |-> r, bus |-> events]

\* the level of the cs line after the events, starting from level: the level
\* the last cs.Low or cs.High set
CsAfter(level, events) ==
    LET driven == {i \in 1..Len(events) : events[i] \in {CsLow, CsHigh}}
        last == CHOOSE i \in driven : \A j \in driven : j <= i
    IN  IF driven = {} THEN level
        ELSE IF events[last] = CsLow THEN "low" ELSE "high"

---------------------------------------------------------------------------
(* The devices on the bus: each holds a 16-bit shift register (register     *)
(* byte, data byte) fed from the device before it, and latches it into the  *)
(* addressed register when the strobe rises; register 0 is the no-op.       *)

RegAddrs == 1..15

\* a byte is shifted into the nearest device; every byte moves on by one
ShiftIn(chain, b) ==
    IF chain.shift = <<>> THEN chain
    ELSE [chain EXCEPT !.shift = <<b>> \o SubSeq(chain.shift, 1, Len(chain.shift) - 1)]

\* the register and data byte held by device k (1 = nearest the controller)
Held(sh, k) == [Register |-> sh[2 * k], Data |-> sh[2 * k - 1]]

\* the strobe rises: every device latches the pair it holds
Latch(chain) ==
    [chain EXCEPT !.regs =
        [k \in 1..Len(chain.regs) |->
            LET held == Held(chain.shift, k)
                addr == held.Register % 16
            IN  IF addr = REG_NOOP THEN chain.regs[k]
                ELSE [chain.regs[k] EXCEPT ![addr] = held.Data]]]

\* the devices after the events, with the strobe at level before them
RECURSIVE ChainAfter(_, _, _)
ChainAfter(level, chain, events) ==
    IF events = <<>> \/ chain.regs = <<>> THEN chain
    ELSE LET e == Head(events)
         IN  IF e = CsLow THEN ChainAfter("low", chain, Tail(events))
             ELSE IF e = CsHigh
             THEN ChainAfter("high",
                             IF level = "low" THEN Latch(chain) ELSE chain,
                             Tail(events))
             ELSE ChainAfter(level, ShiftIn(chain, e[2]), Tail(events))

---------------------------------------------------------------------------
(* The driver                                                              *)

NewDevice(n) ==
    IF n < 1 /\ n > maxNumberOfDevices THEN 1 ELSE n

writeByte(data) == <<Transfer(data)>>

\* mutant of writeCommands: the data byte is shifted out before the register byte
RECURSIVE writeCommands_DataFirst(_)
writeCommands_DataFirst(data) ==
    IF data = <<>> THEN <<>>
    ELSE writeByte(Head(data).Data) \o writeByte(Head(data).Register)
             \o writeCommands_DataFirst(Tail(data))

\* mutant of writeCommands: the frame is shifted out from its last index to
\* its first
RECURSIVE writeCommands_Reversed(_)
writeCommands_Reversed(data) ==
    IF data = <<>> THEN <<>>
    ELSE writeCommands_Reversed(Tail(data))
             \o writeByte(Head(data).Register) \o writeByte(Head(data).Data)

\* the loop of WriteCommandToAll: register byte, then data byte, in index order
RECURSIVE writeCommands(_)
writeCommands(data) ==
    IF data = <<>> THEN <<>>
    ELSE writeByte(Head(data).Register) \o writeByte(Head(data).Data)
             \o writeCommands(Tail(data))

\* mutant of WriteCommandToAll: the strobe is not released after the last byte
WriteCommandToAll_NoHigh(nd, data) ==
    IF Len(data) # nd
    THEN Result(ErrInvalidData, <<>>)
    ELSE Result("nil", <<CsLow>> \o writeCommands(data))

\* mutant of WriteCommandToAll: a frame of the wrong length is cut or padded
\* with no-ops to the chain length instead of being rejected
WriteCommandToAll_Pad(nd, data) ==
    LET fit == [i \in 1..nd |-> IF i <= Len(data) THEN data[i]
                                 ELSE [Register |-> REG_NOOP, Data |-> 0]]
    IN  Result("nil", <<CsLow>> \o writeCommands(fit) \o <<CsHigh>>)

WriteCommandToAll(nd, data) ==
    IF Len(data) # nd
    THEN Result(ErrInvalidData, <<>>)
    ELSE Result("nil", <<CsLow>> \o writeCommands(data) \o <<CsHigh>>)

\* mutant of writeToAll: the frame is built in a buffer of the maximum chain
\* length and passed whole
writeToAll_FixedSize(nd, data) ==
    LET tmp == [i \in 1..maxNumberOfDevices |-> data]
    IN  WriteCommandToAll(nd, tmp)

writeToAll(nd, data) ==
    LET tmp == [i \in 1..nd |-> data]
    IN  WriteCommandToAll(nd, tmp)

\* mutant of WriteCommand: the command is stored at tmp[0] whatever deviceNum is
WriteCommand_Device0(nd, deviceNum, data) ==
    IF deviceNum >= nd
    THEN Result(ErrInvalidData, <<>>)
    ELSE LET tmp == [i \in 1..maxNumberOfDevices |-> NoOp]
             tmp2 == [tmp EXCEPT ![1] = data]
         IN  IF nd > maxNumberOfDevices
             THEN Result("panic", <<>>)
             ELSE WriteCommandToAll(nd, SubSeq(tmp2, 1, nd))

\* mutant of WriteCommand: a deviceNum beyond the chain falls back to device 0
WriteCommand_Fallback(nd, deviceNum, data) ==
    LET dev == IF deviceNum >= nd THEN 0 ELSE deviceNum
        tmp == [i \in 1..maxNumberOfDevices |-> NoOp]
        tmp2 == [tmp EXCEPT ![dev + 1] = data]
    IN  IF dev >= maxNumberOfDevices \/ nd > maxNumberOfDevices
        THEN Result("panic", <<>>)
        ELSE WriteCommandToAll(nd, SubSeq(tmp2, 1, nd))

\* mutant of WriteCommand: tmp is not filled with no-ops but with the command
WriteCommand_NoPadding(nd, deviceNum, data) ==
    IF deviceNum >= nd
    THEN Result(ErrInvalidData, <<>>)
    ELSE LET tmp == [i \in 1..maxNumberOfDevices |-> data]
         IN  IF deviceNum >= maxNumberOfDevices \/ nd > maxNumberOfDevices
             THEN Result("panic", <<>>)
             ELSE WriteCommandToAll(nd, SubSeq(tmp, 1, nd))

\* tmp is a Go array of maxNumberOfDevices entries, indexed from 0: an index
\* or a slice bound beyond it panics
WriteCommand(nd, deviceNum, data) ==
    IF deviceNum >= nd
    THEN Result(ErrInvalidData, <<>>)
    ELSE LET tmp == [i \in 1..maxNumberOfDevices |-> NoOp]
         IN  IF deviceNum >= maxNumberOfDevices
             THEN Result("panic", <<>>)
             ELSE LET tmp2 == [tmp EXCEPT ![deviceNum + 1] = data]
                  IN  IF nd > maxNumberOfDevices
                      THEN Result("panic", <<>>)
                      ELSE WriteCommandToAll(nd, SubSeq(tmp2, 1, nd))

\* mutant of SetScanLimit: a digit count outside 1..8 is dropped
SetScanLimit_Checked(nd, digitNumber) ==
    IF digitNumber < 1 \/ digitNumber > 8
    THEN <<>>
    ELSE writeToAll(nd, Command(REG_SCANLIMIT, digitNumber - 1)).bus

\* mutant of SetScanLimit: the digit count is written as it is
SetScanLimit_NoDecrement(nd, digitNumber) ==
    writeToAll(nd, Command(REG_SCANLIMIT, digitNumber)).bus

\* the setters discard the error of writeToAll
SetScanLimit(nd, digitNumber) ==
    writeToAll(nd, Command(REG_SCANLIMIT, Uint8(digitNumber - 1))).bus

\* mutant of SetIntensity: values above 15 are masked to four bits
SetIntensity_Mask(nd, intensity) ==
    writeToAll(nd, Command(REG_INTENSITY, intensity % 16)).bus

SetIntensity(nd, intensity) ==
    LET clamped == IF intensity > 15 THEN 15 ELSE intensity
    IN  writeToAll(nd, Command(REG_INTENSITY, clamped)).bus

\* mutant of SetDecodeMode: 5, 6 and 7 digits decode all eight digits
SetDecodeMode_UpTo8(nd, digitNumber) ==
    CASE digitNumber = 1 -> writeToAll(nd, Command(REG_DECODE_MODE, 1)).bus
      [] digitNumber \in {2, 3, 4} -> writeToAll(nd, Command(REG_DECODE_MODE, 15)).bus
      [] digitNumber \in {5, 6, 7, 8} -> writeToAll(nd, Command(REG_DECODE_MODE, 255)).bus
      [] OTHER -> writeToAll(nd, Command(REG_DECODE_MODE, 0)).bus

SetDecodeMode(nd, digitNumber) ==
    CASE digitNumber = 1 -> writeToAll(nd, Command(REG_DECODE_MODE, 1)).bus
      [] digitNumber \in {2, 3, 4} -> writeToAll(nd, Command(REG_DECODE_MODE, 15)).bus
      [] digitNumber = 8 -> writeToAll(nd, Command(REG_DECODE_MODE, 255)).bus
      [] OTHER -> writeToAll(nd, Command(REG_DECODE_MODE, 0)).bus

\* mutant of StartShutdownMode: the shutdown register is written 1
StartShutdownMode_One(nd) == writeToAll(nd, Command(REG_SHUTDOWN, 1)).bus

StartShutdownMode(nd) == writeToAll(nd, Command(REG_SHUTDOWN, 0)).bus

StopShutdownMode(nd) == writeToAll(nd, Command(REG_SHUTDOWN, 1)).bus

StartDisplayTest(nd) == writeToAll(nd, Command(REG_DISPLAY_TEST, 1)).bus

StopDisplayTest(nd) == writeToAll(nd, Command(REG_DISPLAY_TEST, 0)).bus

\* mutant of Configure: a zero intensity is written as it is
Configure_ZeroIntensity(nd, config) ==
    LET test == StopDisplayTest(nd)
    IN  IF config.NumberOfDigits < 1 \/ config.NumberOfDigits > 8
        THEN Result(ErrInvalidData, test)
        ELSE Result("nil",
                    test \o SetScanLimit(nd, config.NumberOfDigits)
                         \o SetIntensity(nd, config.Intensity)
                         \o SetDecodeMode(nd, 8)
                         \o StopShutdownMode(nd))

\* mutant of Configure: a bad digit count is reported with an error of its own
Configure_OwnError(nd, config) ==
    LET test == StopDisplayTest(nd)
    IN  IF config.NumberOfDigits < 1 \/ config.NumberOfDigits > 8
        THEN Result("invalid configuration", test)
        ELSE LET intensity == IF config.Intensity = 0 THEN 1 ELSE config.Intensity
             IN  Result("nil",
                        test \o SetScanLimit(nd, config.NumberOfDigits)
                             \o SetIntensity(nd, intensity)
                             \o SetDecodeMode(nd, 8)
                             \o StopShutdownMode(nd))

\* mutant of Configure: shutdown mode is left before the other registers are set
Configure_ShutdownFirst(nd, config) ==
    LET test == StopDisplayTest(nd)
    IN  IF config.NumberOfDigits < 1 \/ config.NumberOfDigits > 8
        THEN Result(ErrInvalidData, test)
        ELSE LET intensity == IF config.Intensity = 0 THEN 1 ELSE config.Intensity
             IN  Result("nil",
                        test \o StopShutdownMode(nd)
                             \o SetScanLimit(nd, config.NumberOfDigits)
                             \o SetIntensity(nd, intensity)
                             \o SetDecodeMode(nd, 8))

Configure(nd, config) ==
    LET test == StopDisplayTest(nd)
    IN  IF config.NumberOfDigits < 1 \/ config.NumberOfDigits > 8
        THEN Result(ErrInvalidData, test)
        ELSE LET intensity == IF config.Intensity = 0 THEN 1 ELSE config.Intensity
             IN  Result("nil",
                        test \o SetScanLimit(nd, config.NumberOfDigits)
                             \o SetIntensity(nd, intensity)
                             \o SetDecodeMode(nd, 8)
                             \o StopShutdownMode(nd))

---------------------------------------------------------------------------
(* The state machine: one caller, one call at a time                       *)

Init ==
    /\ \E n \in NumDevicesArgs :
          /\ numDevices = NewDevice(n)
          /\ call = [op |-> "NewDevice", numDevices |-> n]
    /\ cs = "undriven"
    /\ csOutput = FALSE
    /\ bus = <<>>
    /\ ret = "Device"
    /\ shift = <<>>
    /\ regs = <<>>
    /\ callers = <<>>
    /\ sender = <<>>

\* a panic ends the program
Running == ret # "panic"

\* the effect of a call on the wire
Returns(c, r, events) ==
    /\ call' = c
    /\ ret' = r
    /\ bus' = events
    /\ cs' = CsAfter(cs, events)
    /\ LET chain == ChainAfter(cs, [shift |-> shift, regs |-> regs], events)
       IN  shift' = chain.shift /\ regs' = chain.regs
    /\ UNCHANGED <<numDevices, callers, sender>>

CallConfigure ==
    /\ Running
    /\ \E d \in DigitsArgs, i \in IntensityArgs :
          LET config == [NumberOfDigits |-> d, Intensity |-> i]
              res == Configure(numDevices, config)
          IN  Returns([op |-> "Configure", config |-> config], res.ret, res.bus)
    /\ csOutput' = TRUE

CallSetScanLimit ==
    /\ Running
    /\ \E n \in ByteArgs :
          Returns([op |-> "SetScanLimit", digitNumber |-> n], "void",
                  SetScanLimit(numDevices, n))
    /\ UNCHANGED csOutput

CallSetIntensity ==
    /\ Running
    /\ \E v \in ByteArgs :
          Returns([op |-> "SetIntensity", intensity |-> v], "void",
                  SetIntensity(numDevices, v))
    /\ UNCHANGED csOutput

CallSetDecodeMode ==
    /\ Running
    /\ \E n \in ByteArgs :
          Returns([op |-> "SetDecodeMode", digitNumber |-> n], "void",
                  SetDecodeMode(numDevices, n))
    /\ UNCHANGED csOutput

CallStartShutdownMode ==
    /\ Running
    /\ Returns([op |-> "StartShutdownMode"], "void", StartShutdownMode(numDevices))
    /\ UNCHANGED csOutput

CallStopShutdownMode ==
    /\ Running
    /\ Returns([op |-> "StopShutdownMode"], "void", StopShutdownMode(numDevices))
    /\ UNCHANGED csOutput

CallStartDisplayTest ==
    /\ Running
    /\ Returns([op |-> "StartDisplayTest"], "void", StartDisplayTest(numDevices))
    /\ UNCHANGED csOutput

CallStopDisplayTest ==
    /\ Running
    /\ Returns([op |-> "StopDisplayTest"], "void", StopDisplayTest(numDevices))
    /\ UNCHANGED csOutput

CallWriteCommand ==
    /\ Running
    /\ \E deviceNum \in DeviceNumArgs, data \in CmdArgs :
          LET res == WriteCommand(numDevices, deviceNum, data)
          IN  Returns([op |-> "WriteCommand", deviceNum |-> deviceNum, data |-> data],
                      res.ret, res.bus)
    /\ UNCHANGED csOutput

CallWriteCommandToAll ==
    /\ Running
    /\ \E data \in FrameArgs :
          LET res == WriteCommandToAll(numDevices, data)
          IN  Returns([op |-> "WriteCommandToAll", data |-> data], res.ret, res.bus)
    /\ UNCHANGED csOutput

Next ==
    \/ CallConfigure
    \/ CallSetScanLimit
    \/ CallSetIntensity
    \/ CallSetDecodeMode
    \/ CallStartShutdownMode
    \/ CallStopShutdownMode
    \/ CallStartDisplayTest
    \/ CallStopDisplayTest
    \/ CallWriteCommand
    \/ CallWriteCommandToAll

Spec == Init /\ [][Next]_vars

---------------------------------------------------------------------------
(* The driver with its devices attached: numDevices devices in series, in   *)
(* their power-on state (all control registers reset), driven by the mode   *)
(* calls, WriteCommand and WriteCommandToAll                                *)

ChipDeviceNumArgs == 0..MaxChipDevices

ChipFrameArgs ==
    UNION {SeqsOfLen(FrameCmds, n) : n \in 0..MaxChipDevices}
        \cup {Ramp(n) : n \in 0..(MaxChipDevices + 1)}

InitChip ==
    /\ \E n \in 0..MaxChipDevices :
          /\ numDevices = NewDevice(n)
          /\ call = [op |-> "NewDevice", numDevices |-> n]
    /\ cs = "undriven"
    /\ csOutput = FALSE
    /\ bus = <<>>
    /\ ret = "Device"
    /\ shift = [k \in 1..(2 * numDevices) |-> 0]
    /\ regs = [k \in 1..numDevices |-> [a \in RegAddrs |-> 0]]
    /\ callers = <<>>
    /\ sender = <<>>

ChipWriteCommand ==
    /\ Running
    /\ \E deviceNum \in ChipDeviceNumArgs, data \in CmdArgs :
          LET res == WriteCommand(numDevices, deviceNum, data)
          IN  Returns([op |-> "WriteCommand", deviceNum |-> deviceNum, data |-> data],
                      res.ret, res.bus)
    /\ UNCHANGED csOutput

ChipWriteCommandToAll ==
    /\ Running
    /\ \E data \in ChipFrameArgs :
          LET res == WriteCommandToAll(numDevices, data)
          IN  Returns([op |-> "WriteCommandToAll", data |-> data], res.ret, res.bus)
    /\ UNCHANGED csOutput

NextChip ==
    \/ CallStartShutdownMode
    \/ CallStopShutdownMode
    \/ CallStartDisplayTest
    \/ CallStopDisplayTest
    \/ ChipWriteCommand
    \/ ChipWriteCommandToAll

SpecChip == InitChip /\ [][NextChip]_vars

---------------------------------------------------------------------------
(* Two callers run WriteCommandToAll on the same Device at the same time,   *)
(* with no lock around the calls.  Each statement of WriteCommandToAll is   *)
(* one step; the devices are attached.                                      *)

Callers == {1, 2}

\* caller 1 sends digit commands, caller 2 shutdown commands
ConcCmd(c) == IF c = 1 THEN Command(REG_DIGIT3, 95) ELSE Command(REG_SHUTDOWN, 1)

ConcFrameArgs(c) == {[i \in 1..n |-> ConcCmd(c)] : n \in 0..MaxConcDevices}

InitConc ==
    /\ \E n \in 0..MaxConcDevices :
          /\ numDevices = NewDevice(n)
          /\ call = [op |-> "NewDevice", numDevices |-> n]
    /\ cs = "undriven"
    /\ csOutput = FALSE
    /\ bus = <<>>
    /\ ret = "Device"
    /\ shift = [k \in 1..(2 * numDevices) |-> 0]
    /\ regs = [k \in 1..numDevices |-> [a \in RegAddrs |-> 0]]
    /\ \E d1 \in ConcFrameArgs(1), d2 \in ConcFrameArgs(2) :
          callers = [c \in Callers |->
                        [data |-> IF c = 1 THEN d1 ELSE d2,
                         pc |-> "len", i |-> 1, ret |-> "running"]]
    /\ sender = <<>>

\* caller c puts event e on the wire
Emit(c, e) ==
    /\ bus' = Append(bus, e)
    /\ sender' = Append(sender, c)
    /\ cs' = CsAfter(cs, <<e>>)
    /\ LET chain == ChainAfter(cs, [shift |-> shift, regs |-> regs], <<e>>)
       IN  shift' = chain.shift /\ regs' = chain.regs
    /\ UNCHANGED <<numDevices, csOutput, call, ret>>

\* if len(data) != int(driver.numDevices) { return ErrInvalidData }
ConcLen(c) ==
    /\ callers[c].pc = "len"
    /\ callers' = [callers EXCEPT ![c] =
                      IF Len(callers[c].data) # numDevices
                      THEN [@ EXCEPT !.pc = "done", !.ret = ErrInvalidData]
                      ELSE [@ EXCEPT !.pc = "cs.Low"]]
    /\ UNCHANGED <<numDevices, cs, csOutput, bus, call, ret, shift, regs, sender>>

\* mutant of ConcLow: the strobe is taken only when no other caller holds it
ConcLow_Locked(c) ==
    /\ callers[c].pc = "cs.Low"
    /\ \A o \in Callers \ {c} :
          callers[o].pc \notin {"Register", "Data", "cs.High"}
    /\ Emit(c, CsLow)
    /\ callers' = [callers EXCEPT ![c] =
                      [@ EXCEPT !.pc = IF callers[c].data = <<>>
                                       THEN "cs.High" ELSE "Register"]]

\* driver.cs.Low()
ConcLow(c) ==
    /\ callers[c].pc = "cs.Low"
    /\ Emit(c, CsLow)
    /\ callers' = [callers EXCEPT ![c] =
                      [@ EXCEPT !.pc = IF callers[c].data = <<>>
                                       THEN "cs.High" ELSE "Register"]]

\* driver.writeByte(d.Register)
ConcRegister(c) ==
    /\ callers[c].pc = "Register"
    /\ Emit(c, Transfer(callers[c].data[callers[c].i].Register))
    /\ callers' = [callers EXCEPT ![c] = [@ EXCEPT !.pc = "Data"]]

\* driver.writeByte(d.Data), and the next round of the loop
ConcData(c) ==
    /\ callers[c].pc = "Data"
    /\ Emit(c, Transfer(callers[c].data[callers[c].i].Data))
    /\ callers' = [callers EXCEPT ![c] =
                      IF callers[c].i < Len(callers[c].data)
                      THEN [@ EXCEPT !.pc = "Register", !.i = @ + 1]
                      ELSE [@ EXCEPT !.pc = "cs.High"]]

\* driver.cs.High(); return nil
ConcHigh(c) ==
    /\ callers[c].pc = "cs.High"
    /\ Emit(c, CsHigh)
    /\ callers' = [callers EXCEPT ![c] = [@ EXCEPT !.pc = "done", !.ret = "nil"]]

ConcStep(c) ==
    \/ ConcLen(c)
    \/ ConcLow(c)
    \/ ConcRegister(c)
    \/ ConcData(c)
    \/ ConcHigh(c)

NextConc == \E c \in Callers : ConcStep(c)

SpecConc == InitConc /\ [][NextConc]_vars

---------------------------------------------------------------------------
(* Properties                                                              *)

\* the wire format of one transmission: strobe low, register and data byte of
\* every position in index order, strobe high
WireFormat(frame) ==
    [k \in 1..(2 * Len(frame) + 2) |->
        IF k = 1 THEN CsLow
        ELSE IF k = 2 * Len(frame) + 2 THEN CsHigh
        ELSE IF k % 2 = 0 THEN Transfer(frame[k \div 2].Register)
        ELSE Transfer(frame[(k - 1) \div 2].Data)]

\* the frame of n positions that carries cmd at every position
SameAtAll(n, cmd) == [i \in 1..n |-> cmd]

\* the frame of n positions that carries cmd at position i (from 0) and the
\* no-op command at every other position
OnlyAt(n, i, cmd) ==
    [k \in 1..n |-> IF k = i + 1 THEN cmd ELSE [Register |-> 0, Data |-> 0]]

Min(a, b) == IF a < b THEN a ELSE b

\* C1: for a chain of N devices and a frame of exactly N commands,
\* WriteCommandToAll returns no error and produces exactly strobe low, the
\* 2*N bytes register_0, data_0, ..., register_{N-1}, data_{N-1}, strobe high.
C1_WireFormat ==
    (call.op = "WriteCommandToAll" /\ Len(call.data) = numDevices)
        => /\ ret = "nil"
           /\ Len(bus) = 2 * numDevices + 2
           /\ bus[1] = CsLow
           /\ bus[Len(bus)] = CsHigh
           /\ \A i \in 1..numDevices :
                 /\ bus[2 * i] = Transfer(call.data[i].Register)
                 /\ bus[2 * i + 1] = Transfer(call.data[i].Data)

C1_Witness ==
    /\ call.op = "WriteCommandToAll"
    /\ numDevices = 8
    /\ call.data = Ramp(8)
    /\ ret = "nil"
    /\ Len(bus) = 18

\* C2: for every chain length N in 1..8, every i < N and every cmd,
\* WriteCommand(i, cmd) transmits a frame of exactly N commands with cmd at
\* position i and the no-op command (0x00, 0x00) at every other position.
C2_WriteCommandFrame ==
    (/\ call.op = "WriteCommand"
     /\ numDevices \in 1..8
     /\ call.deviceNum < numDevices)
        => /\ ret = "nil"
           /\ bus = WireFormat(OnlyAt(numDevices, call.deviceNum, call.data))

\* N = 2, i = 1, cmd = (0x04, 0x5F) transmits 0x00, 0x00, 0x04, 0x5F
C2_Witness ==
    /\ call.op = "WriteCommand"
    /\ numDevices = 2
    /\ call.deviceNum = 1
    /\ call.data = Command(4, 95)
    /\ bus = <<CsLow, Transfer(0), Transfer(0), Transfer(4), Transfer(95), CsHigh>>

\* C3: for every chain and every deviceNum >= chain length, WriteCommand
\* returns an error and causes no bus activity: no strobe change, no byte.
C3_InvalidDeviceIndex ==
    (call.op = "WriteCommand" /\ call.deviceNum >= numDevices)
        => ret = ErrInvalidData /\ bus = <<>>

C3_Witness ==
    /\ call.op = "WriteCommand"
    /\ numDevices = 2
    /\ call.deviceNum = 2
    /\ call.data # NoOp
    /\ ret = ErrInvalidData

\* C4: for every chain and every frame whose length differs from the chain
\* length, WriteCommandToAll returns an error and causes no bus activity.
C4_FrameLengthMismatch ==
    (call.op = "WriteCommandToAll" /\ Len(call.data) # numDevices)
        => ret = ErrInvalidData /\ bus = <<>>

C4_Witness ==
    /\ call.op = "WriteCommandToAll"
    /\ numDevices = 2
    /\ Len(call.data) = 3
    /\ ret = ErrInvalidData

\* C5: for every numDevices argument given to NewDevice, the chain length
\* held by the Device is within 1..8, in every reachable state.
C5_ChainLengthInRange ==
    numDevices \in 1..maxNumberOfDevices

\* C6: a Configure rejected because NumberOfDigits is outside 1..8 drives no
\* strobe change and transfers no byte.
C6_RejectedConfigureSilent ==
    (call.op = "Configure" /\ ret = ErrInvalidData) => bus = <<>>

\* C7: for every NumberOfDigits in 1..8, Configure succeeds and transmits
\* exactly five frames in this order, each carrying the same command at every
\* chain position: display-test = 0, scan-limit = NumberOfDigits - 1,
\* intensity, decode-mode = 0xFF, shutdown = 1.
C7_ConfigureSequence ==
    (call.op = "Configure" /\ call.config.NumberOfDigits \in 1..8)
        => /\ ret = "nil"
           /\ \E v \in 0..255 :
                 bus = WireFormat(SameAtAll(numDevices, Command(15, 0)))
                       \o WireFormat(SameAtAll(numDevices,
                              Command(11, call.config.NumberOfDigits - 1)))
                       \o WireFormat(SameAtAll(numDevices, Command(10, v)))
                       \o WireFormat(SameAtAll(numDevices, Command(9, 255)))
                       \o WireFormat(SameAtAll(numDevices, Command(12, 1)))

C7_Witness ==
    /\ call.op = "Configure"
    /\ call.config = [NumberOfDigits |-> 4, Intensity |-> 15]
    /\ numDevices = 2
    /\ ret = "nil"
    /\ Len(bus) = 30

\* C8: for every v, SetIntensity(v) never rejects and transmits one frame
\* carrying (0x0A, min(v, 15)) at every chain position.
C8_IntensityClamped ==
    call.op = "SetIntensity"
        => /\ ret = "void"
           /\ bus = WireFormat(SameAtAll(numDevices,
                        Command(10, Min(call.intensity, 15))))

C8_Witness ==
    /\ call.op = "SetIntensity"
    /\ call.intensity = 16
    /\ numDevices = 2
    /\ bus = <<CsLow, Transfer(10), Transfer(15), Transfer(10), Transfer(15), CsHigh>>

\* C9: for every n, SetDecodeMode(n) transmits one frame carrying register
\* 0x09 at every position with data 0x01 when n = 1, 0x0F when n is 2, 3 or 4,
\* 0xFF when n = 8, and 0x00 for every other n.
C9_DecodeModePattern ==
    call.op = "SetDecodeMode"
        => LET n == call.digitNumber
               pattern == IF n = 1 THEN 1
                          ELSE IF n >= 2 /\ n <= 4 THEN 15
                          ELSE IF n = 8 THEN 255
                          ELSE 0
           IN  bus = WireFormat(SameAtAll(numDevices, Command(9, pattern)))

C9_Witness ==
    /\ call.op = "SetDecodeMode"
    /\ call.digitNumber = 5
    /\ numDevices = 2
    /\ bus = <<CsLow, Transfer(9), Transfer(0), Transfer(9), Transfer(0), CsHigh>>

\* C10: for every n in 1..8, SetScanLimit(n) transmits one frame carrying
\* (0x0B, n - 1) at every chain position.
C10_ScanLimit ==
    (call.op = "SetScanLimit" /\ call.digitNumber \in 1..8)
        => bus = WireFormat(SameAtAll(numDevices,
                     Command(11, call.digitNumber - 1)))

C10_Witness ==
    /\ call.op = "SetScanLimit"
    /\ call.digitNumber = 4
    /\ numDevices = 2
    /\ bus = <<CsLow, Transfer(11), Transfer(3), Transfer(11), Transfer(3), CsHigh>>

\* one strobe window of a chain of n devices takes 2 * n + 2 events
Window(n) == 2 * n + 2

\* C11: in a successful Configure the intensity written to every device is
\* never 0: it is 1 when Config.Intensity is 0 and min(Config.Intensity, 15)
\* otherwise, whereas a direct SetIntensity(0) writes 0.
C11_ConfigureIntensity ==
    /\ (call.op = "Configure" /\ ret = "nil")
          => LET w == Window(numDevices)
                 i == call.config.Intensity
                 frame == SubSeq(bus, 2 * w + 1, 3 * w)
             IN  /\ frame = WireFormat(SameAtAll(numDevices,
                                Command(10, IF i = 0 THEN 1 ELSE Min(i, 15))))
                 /\ \A k \in 1..numDevices : frame[2 * k + 1] # Transfer(0)
    /\ (call.op = "SetIntensity" /\ call.intensity = 0)
          => bus = WireFormat(SameAtAll(numDevices, Command(10, 0)))

C11_Witness ==
    /\ call.op = "Configure"
    /\ call.config = [NumberOfDigits |-> 4, Intensity |-> 0]
    /\ numDevices = 2
    /\ ret = "nil"
    /\ SubSeq(bus, 13, 18)
           = <<CsLow, Transfer(10), Transfer(1), Transfer(10), Transfer(1), CsHigh>>

\* a call the driver rejects: a Configure digit count outside 1..8, a
\* WriteCommand target >= chain length, a WriteCommandToAll frame whose length
\* differs from the chain length
Rejected ==
    \/ call.op = "Configure" /\ call.config.NumberOfDigits \notin 1..8
    \/ call.op = "WriteCommand" /\ call.deviceNum >= numDevices
    \/ call.op = "WriteCommandToAll" /\ Len(call.data) # numDevices

\* C13 as stated: each of the three rejection causes is reported with its own
\* error value, so that a caller can tell them apart: the error of a rejected
\* Configure differs from the one of a rejected WriteCommand and from the one
\* of a rejected WriteCommandToAll, and these two differ.
C13_DistinctErrors ==
    (call.op = "Configure" /\ Rejected)
        => LET index == WriteCommand(numDevices, numDevices, NoOp).ret
               length == WriteCommandToAll(numDevices, Ramp(numDevices + 1)).ret
           IN  ret # index /\ ret # length /\ index # length

\* C13 as amended: the three rejection causes are all reported with the one
\* error value ErrInvalidData; a caller can tell a rejected call from an
\* accepted one, not the causes from each other.
C13_OneError ==
    call.op \in {"Configure", "WriteCommand", "WriteCommandToAll"}
        => (Rejected <=> ret = ErrInvalidData)

C13_Witness ==
    /\ call.op = "Configure"
    /\ call.config.NumberOfDigits = 9
    /\ ret = ErrInvalidData
    /\ WriteCommand(numDevices, numDevices, NoOp).ret = ret
    /\ WriteCommandToAll(numDevices, Ramp(numDevices + 1)).ret = ret

\* C14: every byte transfer happens while the strobe line is low, every
\* strobe-low window is closed by strobe high before the operation returns,
\* and every window contains exactly 2 * numDevices byte transfers.
C14_StrobeWindows ==
    LET w == Window(numDevices)
    IN  /\ Len(bus) % w = 0
        /\ \A k \in 1..Len(bus) :
              LET p == (k - 1) % w
              IN  IF p = 0 THEN bus[k] = CsLow
                  ELSE IF p = w - 1 THEN bus[k] = CsHigh
                  ELSE bus[k][1] = "bus.Transfer"
        /\ cs # "low"

C14_Witness ==
    /\ call.op = "Configure"
    /\ numDevices = 3
    /\ ret = "nil"
    /\ Len(bus) = 40
    /\ cs = "high"

\* C17: for every Device NewDevice can return and every deviceNum,
\* WriteCommand either returns an error or transmits a frame: it never
\* indexes or slices its 8-entry scratch buffer out of range.
C17_NoPanic ==
    call.op = "WriteCommand" => ret \in {ErrInvalidData, "nil"}

\* C18: SetScanLimit(0) is not rejected and transmits scan-limit data 0xFF to
\* every device, and for any n > 8 it transmits n - 1, outside 0..7.
C18_ScanLimitUnchecked ==
    call.op = "SetScanLimit"
        => LET n == call.digitNumber
           IN  /\ ret = "void"
               /\ n = 0 => bus = WireFormat(SameAtAll(numDevices, Command(11, 255)))
               /\ n > 8 => /\ bus = WireFormat(SameAtAll(numDevices, Command(11, n - 1)))
                           /\ n - 1 \notin 0..7

C18_Witness ==
    /\ call.op = "SetScanLimit"
    /\ call.digitNumber = 0
    /\ numDevices = 2
    /\ bus = <<CsLow, Transfer(11), Transfer(255), Transfer(11), Transfer(255), CsHigh>>

SetterOps ==
    {"SetScanLimit", "SetIntensity", "SetDecodeMode", "StartShutdownMode",
     "StopShutdownMode", "StartDisplayTest", "StopDisplayTest"}

\* C20: for every chain length and every command, writeToAll builds a frame
\* of the chain's length with that command at every position, so its
\* WriteCommandToAll call never returns the length-mismatch error, and no
\* setter ever drops its transmission.
C20_WriteToAllNeverRejected ==
    /\ \A cmd \in CmdArgs :
          /\ writeToAll(numDevices, cmd).ret = "nil"
          /\ writeToAll(numDevices, cmd).bus
                 = WireFormat(SameAtAll(numDevices, cmd))
    /\ call.op \in SetterOps
          => /\ Len(bus) = Window(numDevices)
             /\ bus[1] = CsLow
             /\ bus[Len(bus)] = CsHigh
             /\ \A i, j \in 1..numDevices :
                   bus[2 * i] = bus[2 * j] /\ bus[2 * i + 1] = bus[2 * j + 1]

C20_Witness ==
    /\ call.op = "StartDisplayTest"
    /\ numDevices = 9
    /\ Len(bus) = 20

\* C12: every device's shutdown register holds the value of the most recent
\* shutdown call (0 for Start, 1 for Stop) and its display-test register the
\* value of the most recent test call (1 for Start, 0 for Stop); a shutdown
\* call never changes the display-test register and a test call never
\* changes the shutdown register.
C12_ModeRegisters ==
    [][\A k \in 1..Len(regs) :
          /\ call'.op = "StartShutdownMode"
                => regs'[k][12] = 0 /\ regs'[k][15] = regs[k][15]
          /\ call'.op = "StopShutdownMode"
                => regs'[k][12] = 1 /\ regs'[k][15] = regs[k][15]
          /\ call'.op = "StartDisplayTest"
                => regs'[k][15] = 1 /\ regs'[k][12] = regs[k][12]
          /\ call'.op = "StopDisplayTest"
                => regs'[k][15] = 0 /\ regs'[k][12] = regs[k][12]]_vars

C12_Witness ==
    /\ call.op = "StartShutdownMode"
    /\ numDevices = 2
    /\ \A k \in 1..2 : regs[k][12] = 0 /\ regs[k][15] = 1

\* a transmission of a whole frame to attached devices
Transmitted ==
    /\ call.op = "WriteCommandToAll"
    /\ ret = "nil"
    /\ numDevices >= 1
    /\ Len(regs) = numDevices

\* C15 as stated: the command at frame index 0 is the last register/data pair
\* shifted out on the bus, so that when strobe rises it is the pair held and
\* latched by the device nearest the controller.
C15_Index0Nearest ==
    Transmitted
        => /\ bus[Len(bus) - 2] = Transfer(call.data[1].Register)
           /\ bus[Len(bus) - 1] = Transfer(call.data[1].Data)
           /\ Held(shift, 1) = call.data[1]

\* C15 as amended: the command at frame index 0 is the first register/data
\* pair shifted out on the bus, so that when strobe rises it is the pair held
\* and latched by the device farthest from the controller; the pair at index i
\* is held by the device N - 1 - i places from the controller, and the last
\* index by the nearest device.
C15_Index0Farthest ==
    Transmitted
        => /\ bus[2] = Transfer(call.data[1].Register)
           /\ bus[3] = Transfer(call.data[1].Data)
           /\ \A i \in 1..numDevices :
                 LET k == numDevices + 1 - i
                     cmd == call.data[i]
                 IN  /\ Held(shift, k) = cmd
                     /\ cmd.Register # 0 => regs[k][cmd.Register] = cmd.Data

C15_Witness ==
    /\ Transmitted
    /\ numDevices = 2
    /\ call.data = Ramp(2)
    /\ Held(shift, 2) = Command(1, 81)
    /\ Held(shift, 1) = Command(2, 82)
    /\ regs[2][1] = 81
    /\ regs[1][2] = 82

\* C16: a successful WriteCommand changes the registers of one device only,
\* the one its deviceNum addresses (which latches the command, unless it is a
\* no-op); every other device of the chain latches a no-op and keeps all its
\* registers.
C16_OnlyAddressedDevice ==
    [][(call'.op = "WriteCommand" /\ ret' = "nil")
          => LET addressed == numDevices - call'.deviceNum
                 cmd == call'.data
             IN  /\ \A k \in 1..Len(regs) :
                       k # addressed => regs'[k] = regs[k]
                 /\ Len(regs) = numDevices
                       => regs'[addressed] =
                              IF cmd.Register = 0 THEN regs[addressed]
                              ELSE [regs[addressed] EXCEPT ![cmd.Register] = cmd.Data]]_vars

C16_Witness ==
    /\ call.op = "WriteCommand"
    /\ ret = "nil"
    /\ numDevices = 2
    /\ call.deviceNum = 0
    /\ call.data = Command(4, 95)
    /\ regs[2][4] = 95
    /\ regs[1][4] = 0
    /\ regs[1][12] = 1

\* caller a's strobe-low window holds a byte of caller b
ForeignByte(a, b) ==
    \E i, j, k \in 1..Len(bus) :
        /\ i < j /\ j < k
        /\ bus[i] = CsLow /\ sender[i] = a
        /\ bus[j][1] = "bus.Transfer" /\ sender[j] = b
        /\ bus[k] = CsHigh /\ sender[k] = a
        /\ \A m \in (i + 1)..(k - 1) : sender[m] = a => bus[m][1] = "bus.Transfer"

\* C19: the controller does not serialise callers: a caller that has not
\* returned can always take its next step, whatever the other caller is in
\* the middle of; in particular it can drive the strobe low and transfer its
\* bytes inside the other caller's strobe-low window.
C19_NotSerialised ==
    \A c \in DOMAIN callers :
        callers[c].pc # "done" => ENABLED ConcStep(c)

\* both callers were accepted, bytes of caller 2 went out inside the window of
\* caller 1, and the burst the devices latched was half caller 1's frame and
\* half caller 2's: the nearest device took only the digit command, the other
\* device only the shutdown command
C19_Witness ==
    /\ numDevices = 2
    /\ \A c \in Callers : callers[c].pc = "done" /\ callers[c].ret = "nil"
    /\ ForeignByte(1, 2)
    /\ regs[1][4] = 95 /\ regs[1][12] = 0
    /\ regs[2][4] = 0 /\ regs[2][12] = 1

====
